---- MODULE Spec2Model ----
(***************************************************************************)
(* PatchEkltDependent (src/src/solver/patch_eklt_dependent.py).            *)
(*                                                                         *)
(* Spec        : estimate() as a state machine, one action per block of    *)
(*               the method, over any sequence of calls.                   *)
(* SpecDecode  : the decode / scatter / reconstruction functions applied   *)
(*               to bounded parameter vectors and Active Patch Sets.       *)
(*                                                                         *)
(* Numbers.  Tensor entries are integers.  In Spec the content of the      *)
(* parameter tensor is one integer (the value of the iterate); tensors     *)
(* are heap objects, so that two names bound to one tensor are visible.    *)
(* In SpecDecode parameters are multiples of 8, so that the division by 8  *)
(* of poisson_to_flow is exact, and an angle a stands for a * pi/16, so    *)
(* that sin and cos of every multiple of 8 are exact.                      *)
(***************************************************************************)
EXTENDS Integers, Sequences, FiniteSets, TLC

VARIABLES
    \* ---- configuration, fixed at construction
    n_iter,               \* self._opt_config["n_iter"]
    model_image,          \* self._gml_config["model_image"]
    do_event_thresholding,
    event_thres,
    crop,                 \* crop_xmin, crop_xmax, crop_ymin, crop_ymax
    is_poisson_model,
    is_angle_model,
    optimize_warp,        \* self._gml_config["optimize_warp"]
    \* ---- attributes of the solver object
    frame,                \* self._frame
    cache_histogram,      \* self.cache_histogram
    cache_weights,        \* self.cache_weights
    estimate_indices,     \* self.estimate_indices
    n_parameter_dim,      \* self.n_parameter_dim
    iter_cnt,             \* self.iter_cnt
    \* ---- the running estimate() call
    pc,                   \* position in estimate()
    exc,                  \* exception that left estimate(), or "none"
    events,               \* argument of the call: cropped event count per patch
    heap,                 \* tensors allocated by the call: id -> content
    x0,                   \* tensor id bound to the name x0 (0: unbound)
    best_x,               \* tensor id bound to the name best_x (0: unbound)
    best_it,
    min_loss,
    loss,
    it,                   \* loop variable
    n_opt_steps,          \* optimizer.step() calls on this call's optimizer
    n_sched_steps,        \* scheduler.step() calls on this call's scheduler
    dense_flow,           \* <<v>>: dense flow decoded from content v; <<>>: none
    \* ---- history of the running call (not program state)
    x_at_best,            \* content of x0 when the best record was last written
    x_at_prior_best,      \* x_at_best as it stood when iteration fail_it began
    fail_it,              \* iteration whose backward() raised, or -1
    fail_loss,            \* the loss of that iteration
    \* ---- decode functions (SpecDecode)
    parameters,           \* flat parameter vector
    called,               \* the decode function last applied
    result                \* what it returned, or an error record

vars == <<n_iter, model_image, do_event_thresholding, event_thres, crop,
          is_poisson_model, is_angle_model, optimize_warp,
          frame, cache_histogram, cache_weights, estimate_indices,
          n_parameter_dim, iter_cnt,
          pc, exc, events, heap, x0, best_x, best_it, min_loss, loss, it,
          n_opt_steps, n_sched_steps, dense_flow,
          x_at_best, x_at_prior_best, fail_it, fail_loss,
          parameters, called, result>>

cfgVars == <<n_iter, model_image, do_event_thresholding, event_thres, crop,
             is_poisson_model, is_angle_model, optimize_warp>>
callVars == <<pc, exc, events, heap, x0, best_x, best_it, min_loss, loss, it,
              n_opt_steps, n_sched_steps, dense_flow,
              x_at_best, x_at_prior_best, fail_it, fail_loss>>
objVars == <<frame, cache_histogram, cache_weights, estimate_indices,
             n_parameter_dim, iter_cnt>>
decVars == <<parameters, called, result>>

-----------------------------------------------------------------------------
(* Bounds *)

MaxIter == 2        \* n_iter ranges over 0..MaxIter
MaxCalls == 2       \* estimate() returns at most MaxCalls times
MaxOffset == 1      \* offsets of the parameter vectors of SpecDecode

-----------------------------------------------------------------------------
(* Patch grid (PatchEklt, outside src/): patch_image_size patches of       *)
(* patch_size pixels, grid index i at row i \div w, column i % w.          *)

patch_image_size == <<2, 2>>
patch_size == <<2, 2>>
n_patch == patch_image_size[1] * patch_image_size[2]
PatchIds == 0 .. (n_patch - 1)

patches(i) ==
    LET r == i \div patch_image_size[2]
        c == i % patch_image_size[2]
    IN [x     |-> r * patch_size[1] + (patch_size[1] \div 2),
        y     |-> c * patch_size[2] + (patch_size[2] \div 2),
        x_min |-> r * patch_size[1],
        x_max |-> (r + 1) * patch_size[1],
        y_min |-> c * patch_size[2],
        y_max |-> (c + 1) * patch_size[2]]

\* utils.crop_event(events, x_min, x_max, y_min, y_max): the events inside a
\* patch's bounding box.  The event array is kept as its count per patch.
crop_event(ev, i) == ev[i]

NoEvents == [i \in PatchIds |-> 0]

\* configured crops (inclusive bounds on patch centers)
RoiChoices ==
    { [xmin |-> 0, xmax |-> 4, ymin |-> 0, ymax |-> 4],    \* all centers
      [xmin |-> 1, xmax |-> 2, ymin |-> 0, ymax |-> 3],    \* row 0, center on the bound
      [xmin |-> 2, xmax |-> 4, ymin |-> 2, ymax |-> 4] }   \* patch 3 only

ThresChoices == {10}
EventInputs(th) == [PatchIds -> {th - 1, th, th + 1}]

-----------------------------------------------------------------------------
(* Loss values: finite numbers, NaN and the infinities.                    *)

Fin(v) == [k |-> "fin", v |-> v]
NaN == [k |-> "nan", v |-> 0]
PosInf == [k |-> "inf", v |-> 1]
NegInf == [k |-> "inf", v |-> -1]
Losses == {Fin(1), Fin(2), NaN, NegInf}
IsFinite(a) == a.k = "fin"

\* a < b on floats: false when either side is NaN
LossLt(a, b) ==
    IF a.k = "nan" \/ b.k = "nan" THEN FALSE
    ELSE IF a.k = "inf" THEN a.v = -1 /\ b # NegInf
    ELSE IF b.k = "inf" THEN b.v = 1
    ELSE a.v < b.v

\* in-place change of the parameter tensor by one optimizer step
StepDeltas == {-1, 1}

-----------------------------------------------------------------------------
(* estimate(), lines 62-80: the Active Patch Set                           *)

InsideRoi(i, roi) ==
    /\ ~(patches(i).x < roi.xmin \/ roi.xmax < patches(i).x)
    /\ ~(patches(i).y < roi.ymin \/ roi.ymax < patches(i).y)

SelectedMutantGE(ev, i, roi, thresholding, thres) ==
    /\ InsideRoi(i, roi)
    /\ (~thresholding \/ crop_event(ev, i) >= thres)

Selected(ev, i, roi, thresholding, thres) ==
    /\ InsideRoi(i, roi)
    /\ (~thresholding \/ crop_event(ev, i) > thres)

RECURSIVE SelectFrom(_, _, _, _, _, _)
SelectFrom(i, acc, ev, roi, thresholding, thres) ==
    IF i >= n_patch THEN acc
    ELSE SelectFrom(i + 1,
                    IF Selected(ev, i, roi, thresholding, thres)
                    THEN Append(acc, i) ELSE acc,
                    ev, roi, thresholding, thres)

SelectIndices(ev, roi, thresholding, thres) ==
    SelectFrom(0, <<>>, ev, roi, thresholding, thres)

-----------------------------------------------------------------------------
(* Decode, scatter and reconstruction.  A field is a sequence of channels, *)
(* a channel a sequence over the grid in row-major order (grid index i at  *)
(* position i + 1).                                                        *)

NoError == "none"
Returned(f) == [err |-> NoError, field |-> f]
Raised(e) == [err |-> e, field |-> <<>>]

dense_size == <<patch_image_size[1] * patch_size[1], patch_image_size[2] * patch_size[2]>>
n_pixel == dense_size[1] * dense_size[2]

\* torch.zeros((c, self.n_patch))
Zeros(c) == [ch \in 1 .. c |-> [i \in 1 .. n_patch |-> 0]]

ReshapedParamsMutantNoTranspose(params, dim) ==
    LET n == Len(params) \div dim
    IN [r \in 1 .. dim |-> [j \in 1 .. n |-> params[(r - 1) * n + j]]]

\* parameters.reshape(-1, self.n_parameter_dim).T : row r, column j
ReshapedParams(params, dim) ==
    LET n == Len(params) \div dim
    IN [r \in 1 .. dim |-> [j \in 1 .. n |-> params[(j - 1) * dim + r]]]

\* positions of idx that hold grid index i
Hits(idx, i) == {j \in 1 .. Len(idx) : idx[j] = i}
LastHit(idx, i) == CHOOSE j \in Hits(idx, i) : \A k \in Hits(idx, i) : k <= j

ScatterAddMutantPrefix(row, idx, vals) ==
    [i \in 1 .. n_patch |-> IF i <= Len(vals) THEN row[i] + vals[i] ELSE row[i]]

\* row[idx] += vals
ScatterAdd(row, idx, vals) ==
    [i \in 1 .. n_patch |->
        IF Hits(idx, i - 1) = {} THEN row[i]
        ELSE row[i] + vals[LastHit(idx, i - 1)]]

\* t[:, idx] = vals
ScatterSet(t, idx, vals) ==
    [ch \in 1 .. Len(t) |->
        [i \in 1 .. n_patch |->
            IF Hits(idx, i - 1) = {} THEN t[ch][i]
            ELSE vals[LastHit(idx, i - 1)]]]

\* torch.sin, torch.cos of an angle a * pi/16, a a multiple of 8
Sin(a) == LET q == (a \div 8) % 4 IN IF q = 1 THEN 1 ELSE IF q = 3 THEN -1 ELSE 0
Cos(a) == LET q == (a \div 8) % 4 IN IF q = 0 THEN 1 ELSE IF q = 2 THEN -1 ELSE 0

\* utils.SobelTorch (outside src/): 3x3 Sobel kernels, zero padding, on one
\* h x w channel
At(img, h, w, r, c) ==
    IF 0 <= r /\ r < h /\ 0 <= c /\ c < w THEN img[r * w + c + 1] ELSE 0
SobelWeight(d) == IF d = 0 THEN 2 ELSE 1
SobelXAt(img, h, w, r, c) ==
    LET T(d) == SobelWeight(d) * (At(img, h, w, r + d, c + 1) - At(img, h, w, r + d, c - 1))
    IN T(-1) + T(0) + T(1)
SobelYAt(img, h, w, r, c) ==
    LET T(d) == SobelWeight(d) * (At(img, h, w, r + 1, c + d) - At(img, h, w, r - 1, c + d))
    IN T(-1) + T(0) + T(1)
SobelTorch(img, h, w) ==
    << [p \in 1 .. h * w |-> SobelXAt(img, h, w, (p - 1) \div w, (p - 1) % w)],
       [p \in 1 .. h * w |-> SobelYAt(img, h, w, (p - 1) \div w, (p - 1) % w)] >>

\* poisson_to_flow on a channel-first field: SobelTorch(in_channels=1)(poisson) / 8.
poisson_to_flow(poisson, h, w) ==
    IF Len(poisson) # 1 THEN Raised("ChannelMismatch")
    ELSE LET g == SobelTorch(poisson[1], h, w)
         IN Returned([ch \in 1 .. 2 |-> [p \in 1 .. h * w |-> g[ch][p] \div 8]])

\* PatchEklt.interpolate_dense_*_from_patch_tensor (outside src/): every pixel
\* takes the value of the patch it lies in, so patch centers keep their value
Interpolate(field) ==
    [ch \in 1 .. Len(field) |->
        [p \in 1 .. n_pixel |->
            LET R == (p - 1) \div dense_size[2]
                C == (p - 1) % dense_size[2]
            IN field[ch][(R \div patch_size[1]) * patch_image_size[2]
                         + (C \div patch_size[2]) + 1]]]

FlowDimsMutantAngle(poisson, angle) ==
    IF poisson THEN {1, 3} ELSE {2, 4}

\* the asserted sets of _get_patch_flow (lines 200, 207, 210)
FlowDims(poisson, angle) ==
    IF poisson THEN {1, 3} ELSE IF angle THEN {1, 3} ELSE {2, 4}

\* the asserted sets of _get_patch_translation (lines 228, 232, 235)
TranslationDims(poisson, angle) ==
    IF poisson THEN {3} ELSE IF angle THEN {3} ELSE {4}

\* the asserted set of _get_patch_poisson (lines 252-253)
PoissonDims(poisson) == IF poisson THEN {1, 3} ELSE {}

\* lines 201-202: orig_patch_p
ScatteredIntensity(params, dim, idx) ==
    ScatterSet(Zeros(dim), idx, ReshapedParams(params, dim)[1])

\* _get_patch_flow
GetPatchFlow(params, dim, idx, poisson, angle) ==
    IF dim \notin FlowDims(poisson, angle) THEN Raised("AssertionError")
    ELSE IF poisson
    THEN poisson_to_flow(ScatteredIntensity(params, dim, idx),
                         patch_image_size[1], patch_image_size[2])
    ELSE LET R == ReshapedParams(params, dim)
             v_x == IF angle THEN [j \in 1 .. Len(R[1]) |-> Sin(R[1][j])] ELSE R[1]
             v_y == IF angle THEN [j \in 1 .. Len(R[1]) |-> Cos(R[1][j])] ELSE R[2]
             z == Zeros(2)
         IN Returned(<<ScatterAdd(z[1], idx, v_x), ScatterAdd(z[2], idx, v_y)>>)

\* _get_patch_translation
GetPatchTranslation(params, dim, idx, poisson, angle) ==
    IF dim \notin TranslationDims(poisson, angle) THEN Raised("AssertionError")
    ELSE LET R == ReshapedParams(params, dim)
             v_x == IF poisson \/ angle THEN R[2] ELSE R[3]
             v_y == IF poisson \/ angle THEN R[3] ELSE R[4]
             z == Zeros(2)
         IN Returned(<<ScatterAdd(z[1], idx, v_x), ScatterAdd(z[2], idx, v_y)>>)

\* _get_patch_poisson
GetPatchPoisson(params, dim, idx, poisson) ==
    IF dim \notin PoissonDims(poisson) THEN Raised("AssertionError")
    ELSE LET R == ReshapedParams(params, dim)
             z == Zeros(1)
         IN Returned(<<ScatterAdd(z[1], idx, R[1])>>)

ExtrapolateDenseFlowMutantInterpolateFirst(params, dim, idx, poisson, angle) ==
    IF poisson /\ dim \in FlowDims(poisson, angle)
    THEN poisson_to_flow(Interpolate(<<ScatteredIntensity(params, dim, idx)[1]>>),
                         dense_size[1], dense_size[2])
    ELSE LET pf == GetPatchFlow(params, dim, idx, poisson, angle)
         IN IF pf.err # NoError THEN pf ELSE Returned(Interpolate(pf.field))

\* _extrapolate_dense_flow_from_estimates: "First Sobel, next interpolation"
ExtrapolateDenseFlow(params, dim, idx, poisson, angle) ==
    LET pf == GetPatchFlow(params, dim, idx, poisson, angle)
    IN IF pf.err # NoError THEN pf ELSE Returned(Interpolate(pf.field))

\* _extrapolate_dense_translation_from_estimates
ExtrapolateDenseTranslation(params, dim, idx, poisson, angle) ==
    LET pt == GetPatchTranslation(params, dim, idx, poisson, angle)
    IN IF pt.err # NoError THEN pt ELSE Returned(Interpolate(pt.field))

\* _extrapolate_dense_poisson_from_estimates
ExtrapolateDensePoisson(params, dim, idx, poisson) ==
    LET pp == GetPatchPoisson(params, dim, idx, poisson)
    IN IF pp.err # NoError THEN pp ELSE Returned(Interpolate(pp.field))

\* the decode functions take self and parameters; nothing is assigned
Apply(name, value) ==
    /\ called' = name
    /\ result' = value
    /\ UNCHANGED parameters
    /\ UNCHANGED callVars
    /\ UNCHANGED objVars
    /\ UNCHANGED cfgVars

DecodeFlow ==
    Apply("_get_patch_flow",
          GetPatchFlow(parameters, n_parameter_dim, estimate_indices,
                       is_poisson_model, is_angle_model))

DecodeTranslation ==
    Apply("_get_patch_translation",
          GetPatchTranslation(parameters, n_parameter_dim, estimate_indices,
                              is_poisson_model, is_angle_model))

DecodePoisson ==
    Apply("_get_patch_poisson",
          GetPatchPoisson(parameters, n_parameter_dim, estimate_indices,
                          is_poisson_model))

DenseFlow ==
    Apply("_extrapolate_dense_flow_from_estimates",
          ExtrapolateDenseFlow(parameters, n_parameter_dim, estimate_indices,
                               is_poisson_model, is_angle_model))

DenseTranslation ==
    Apply("_extrapolate_dense_translation_from_estimates",
          ExtrapolateDenseTranslation(parameters, n_parameter_dim, estimate_indices,
                                      is_poisson_model, is_angle_model))

DensePoisson ==
    Apply("_extrapolate_dense_poisson_from_estimates",
          ExtrapolateDensePoisson(parameters, n_parameter_dim, estimate_indices,
                                  is_poisson_model))

\* Active Patch Sets estimate() can leave behind: strictly increasing, not empty
RECURSIVE SortedSeq(_)
SortedSeq(S) ==
    IF S = {} THEN <<>>
    ELSE LET m == CHOOSE a \in S : \A b \in S : a <= b
         IN <<m>> \o SortedSeq(S \ {m})
ActivePatchSets == {SortedSeq(S) : S \in (SUBSET PatchIds) \ {{}}}

\* parameter vectors: entry p is 8 * (a * p + b)
ParamSlopes == {-1, 0, 1}
ParamVector(len, a, b) == [p \in 1 .. len |-> 8 * (a * p + b)]

InitDecode ==
    /\ n_iter = 0
    /\ model_image = "current"
    /\ do_event_thresholding = TRUE
    /\ event_thres \in ThresChoices
    /\ crop = CHOOSE r \in RoiChoices : r.xmin = 0
    /\ is_poisson_model \in BOOLEAN
    /\ is_angle_model \in BOOLEAN
    /\ optimize_warp \in BOOLEAN
    /\ frame = "frame"
    /\ cache_histogram = "unset"
    /\ cache_weights = "unset"
    /\ estimate_indices \in ActivePatchSets
    /\ n_parameter_dim \in 1 .. 4
    /\ iter_cnt = 1
    /\ pc = "idle"
    /\ exc = "none"
    /\ events = NoEvents
    /\ heap = <<>>
    /\ x0 = 0
    /\ best_x = 0
    /\ best_it = 0
    /\ min_loss = PosInf
    /\ loss = NaN
    /\ it = 0
    /\ n_opt_steps = 0
    /\ n_sched_steps = 0
    /\ dense_flow = <<>>
    /\ x_at_best = 0
    /\ x_at_prior_best = 0
    /\ fail_it = -1
    /\ fail_loss = NaN
    /\ \E a \in ParamSlopes, b \in 0 .. MaxOffset :
          parameters = ParamVector(Len(estimate_indices) * n_parameter_dim, a, b)
    /\ called = "none"
    /\ result = Raised("none")

NextDecode ==
    \/ DecodeFlow
    \/ DecodeTranslation
    \/ DecodePoisson
    \/ DenseFlow
    \/ DenseTranslation
    \/ DensePoisson

SpecDecode == InitDecode /\ [][NextDecode]_vars

-----------------------------------------------------------------------------
(* estimate()                                                              *)

InitialX == 0     \* content of np.concatenate of the initial guesses

CallLocalsReset ==
    /\ heap' = <<>>
    /\ x0' = 0
    /\ best_x' = 0
    /\ best_it' = 0
    /\ min_loss' = PosInf
    /\ loss' = NaN
    /\ it' = 0
    /\ n_opt_steps' = 0
    /\ n_sched_steps' = 0

\* lines 53-60: set the frame, build the event cache
Call ==
    /\ pc \in {"idle", "raised"}
    /\ iter_cnt < MaxCalls
    /\ events' \in EventInputs(event_thres)
    /\ frame' = IF model_image = "current" THEN "frame"
                ELSE IF frame = "None" /\ model_image = "background"
                     THEN "background" ELSE frame
    /\ cache_histogram' = "held"
    /\ cache_weights' = "held"
    /\ pc' = "select"
    /\ exc' = "none"
    /\ dense_flow' = <<>>
    /\ x_at_best' = 0
    /\ x_at_prior_best' = 0
    /\ fail_it' = -1
    /\ fail_loss' = NaN
    /\ CallLocalsReset
    /\ UNCHANGED <<estimate_indices, n_parameter_dim, iter_cnt>>
    /\ UNCHANGED cfgVars
    /\ UNCHANGED decVars

\* lines 62-80
SelectPatches ==
    /\ pc = "select"
    /\ estimate_indices' =
           SelectIndices(events, crop, do_event_thresholding, event_thres)
    /\ pc' = "x0"
    /\ UNCHANGED <<frame, cache_histogram, cache_weights, n_parameter_dim, iter_cnt>>
    /\ UNCHANGED <<exc, events, heap, x0, best_x, best_it, min_loss, loss, it,
                   n_opt_steps, n_sched_steps, dense_flow,
                   x_at_best, x_at_prior_best, fail_it, fail_loss>>
    /\ UNCHANGED cfgVars
    /\ UNCHANGED decVars

\* PatchEklt._initialize_velocity (outside src/): the initial guess of one
\* patch; its length is the block size of the section 4.2 table.
InitialVelocityLen(poisson, angle, warp) ==
    IF poisson \/ angle THEN (IF warp THEN 3 ELSE 1)
    ELSE (IF warp THEN 4 ELSE 2)

\* lines 82-85: np.concatenate of an empty list raises ValueError
BuildX0 ==
    /\ pc = "x0"
    /\ n_parameter_dim' =
           InitialVelocityLen(is_poisson_model, is_angle_model, optimize_warp)
    /\ IF Len(estimate_indices) = 0
       THEN /\ pc' = "raised"
            /\ exc' = "ValueError"
            /\ UNCHANGED <<heap, x0>>
       ELSE /\ pc' = "setup"
            /\ heap' = <<InitialX>>
            /\ x0' = 1
            /\ UNCHANGED exc
    /\ UNCHANGED <<frame, cache_histogram, cache_weights, estimate_indices, iter_cnt>>
    /\ UNCHANGED <<events, best_x, best_it, min_loss, loss, it,
                   n_opt_steps, n_sched_steps, dense_flow,
                   x_at_best, x_at_prior_best, fail_it, fail_loss>>
    /\ UNCHANGED cfgVars
    /\ UNCHANGED decVars

\* lines 87-99: measured increment (last read of events), optimizer, scheduler,
\* best record, entry of the for loop
Setup ==
    /\ pc = "setup"
    /\ events' = NoEvents
    /\ n_opt_steps' = 0
    /\ n_sched_steps' = 0
    /\ best_x' = x0
    /\ best_it' = 0
    /\ min_loss' = PosInf
    /\ x_at_best' = heap[x0]
    /\ x_at_prior_best' = heap[x0]
    /\ it' = 0
    /\ pc' = IF 0 < n_iter THEN "loss" ELSE "post"
    /\ UNCHANGED <<exc, heap, x0, loss, dense_flow, fail_it, fail_loss>>
    /\ UNCHANGED objVars
    /\ UNCHANGED cfgVars
    /\ UNCHANGED decVars

\* lines 100-104: zero_grad, forward prediction and loss (the caches are read)
ComputeLoss ==
    /\ pc = "loss"
    /\ cache_histogram = "held"
    /\ loss' \in Losses
    /\ x_at_prior_best' = x_at_best
    /\ pc' = "best"
    /\ UNCHANGED <<exc, events, heap, x0, best_x, best_it, min_loss, it,
                   n_opt_steps, n_sched_steps, dense_flow,
                   x_at_best, fail_it, fail_loss>>
    /\ UNCHANGED objVars
    /\ UNCHANGED cfgVars
    /\ UNCHANGED decVars

\* lines 105-108: best_x = x0 binds the name best_x to the tensor x0
UpdateBest ==
    /\ pc = "best"
    /\ IF LossLt(loss, min_loss)
       THEN /\ best_x' = x0
            /\ min_loss' = loss
            /\ best_it' = it
            /\ x_at_best' = heap[x0]
       ELSE UNCHANGED <<best_x, min_loss, best_it, x_at_best>>
    /\ pc' = "backward"
    /\ UNCHANGED <<exc, events, heap, x0, loss, it,
                   n_opt_steps, n_sched_steps, dense_flow,
                   x_at_prior_best, fail_it, fail_loss>>
    /\ UNCHANGED objVars
    /\ UNCHANGED cfgVars
    /\ UNCHANGED decVars

BackwardTargetMutant(raised) == "step"

\* where control goes after loss.backward(): break on an exception
BackwardTarget(raised) == IF raised THEN "post" ELSE "step"

\* lines 109-113
Backward ==
    /\ pc = "backward"
    /\ \E raised \in BOOLEAN :
          /\ pc' = BackwardTarget(raised)
          /\ fail_it' = IF raised THEN it ELSE fail_it
          /\ fail_loss' = IF raised THEN loss ELSE fail_loss
    /\ UNCHANGED <<exc, events, heap, x0, best_x, best_it, min_loss, loss, it,
                   n_opt_steps, n_sched_steps, dense_flow,
                   x_at_best, x_at_prior_best>>
    /\ UNCHANGED objVars
    /\ UNCHANGED cfgVars
    /\ UNCHANGED decVars

\* line 114: the optimizer updates the tensor x0 in place
OptimizerStep ==
    /\ pc = "step"
    /\ \E d \in StepDeltas : heap' = [heap EXCEPT ![x0] = @ + d]
    /\ n_opt_steps' = n_opt_steps + 1
    /\ pc' = "sched"
    /\ UNCHANGED <<exc, events, x0, best_x, best_it, min_loss, loss, it,
                   n_sched_steps, dense_flow,
                   x_at_best, x_at_prior_best, fail_it, fail_loss>>
    /\ UNCHANGED objVars
    /\ UNCHANGED cfgVars
    /\ UNCHANGED decVars

\* line 115, and line 99: next value of range(iters) or loop exit
SchedulerStep ==
    /\ pc = "sched"
    /\ n_sched_steps' = n_sched_steps + 1
    /\ IF it + 1 < n_iter
       THEN /\ it' = it + 1
            /\ pc' = "loss"
       ELSE /\ pc' = "post"
            /\ UNCHANGED it
    /\ UNCHANGED <<exc, events, heap, x0, best_x, best_it, min_loss, loss,
                   n_opt_steps, dense_flow,
                   x_at_best, x_at_prior_best, fail_it, fail_loss>>
    /\ UNCHANGED objVars
    /\ UNCHANGED cfgVars
    /\ UNCHANGED decVars

\* lines 117-118: clone().detach() allocates a tensor with the content best_x
\* has now; the dense flow is decoded from it
Reconstruct ==
    /\ pc = "post"
    /\ heap' = Append(heap, heap[best_x])
    /\ best_x' = Len(heap) + 1
    /\ dense_flow' = <<heap[best_x]>>
    /\ pc' = "free"
    /\ UNCHANGED <<exc, events, x0, best_it, min_loss, loss, it,
                   n_opt_steps, n_sched_steps,
                   x_at_best, x_at_prior_best, fail_it, fail_loss>>
    /\ UNCHANGED objVars
    /\ UNCHANGED cfgVars
    /\ UNCHANGED decVars

\* lines 120-137: history, del of the caches, call counter, return
Release ==
    /\ pc = "free"
    /\ cache_histogram' = "unset"
    /\ cache_weights' = "unset"
    /\ iter_cnt' = iter_cnt + 1
    /\ pc' = "idle"
    /\ CallLocalsReset
    /\ UNCHANGED <<frame, estimate_indices, n_parameter_dim>>
    /\ UNCHANGED <<exc, events, dense_flow,
                   x_at_best, x_at_prior_best, fail_it, fail_loss>>
    /\ UNCHANGED cfgVars
    /\ UNCHANGED decVars

NoDecode ==
    /\ parameters = <<>>
    /\ called = "none"
    /\ result = Raised("none")

Init ==
    /\ n_iter \in 0 .. MaxIter
    /\ model_image \in {"current", "background"}
    /\ do_event_thresholding \in BOOLEAN
    /\ event_thres \in ThresChoices
    /\ crop \in RoiChoices
    /\ is_poisson_model = FALSE      \* estimate() reads the model kind only
    /\ is_angle_model = FALSE        \* through the block size (line 83)
    /\ optimize_warp \in BOOLEAN
    /\ frame = "None"
    /\ cache_histogram = "unset"
    /\ cache_weights = "unset"
    /\ estimate_indices = <<>>
    /\ n_parameter_dim = 0
    /\ iter_cnt = 0
    /\ pc = "idle"
    /\ exc = "none"
    /\ events = NoEvents
    /\ heap = <<>>
    /\ x0 = 0
    /\ best_x = 0
    /\ best_it = 0
    /\ min_loss = PosInf
    /\ loss = NaN
    /\ it = 0
    /\ n_opt_steps = 0
    /\ n_sched_steps = 0
    /\ dense_flow = <<>>
    /\ x_at_best = 0
    /\ x_at_prior_best = 0
    /\ fail_it = -1
    /\ fail_loss = NaN
    /\ NoDecode

Next ==
    \/ Call
    \/ SelectPatches
    \/ BuildX0
    \/ Setup
    \/ ComputeLoss
    \/ UpdateBest
    \/ Backward
    \/ OptimizerStep
    \/ SchedulerStep
    \/ Reconstruct
    \/ Release

Spec == Init /\ [][Next]_vars

-----------------------------------------------------------------------------
(* Properties                                                              *)

Active == {estimate_indices[j] : j \in 1 .. Len(estimate_indices)}
LoopPcs == {"loss", "best", "backward", "step", "sched"}
DecodePaths == {"_get_patch_flow", "_get_patch_translation", "_get_patch_poisson"}
ZeroOffActive(field) ==
    \A ch \in 1 .. Len(field) : \A i \in PatchIds :
        i \notin Active => field[ch][i + 1] = 0

\* C1: after the loop, the parameters handed to dense reconstruction have the
\* values the parameter vector held at the iteration recorded as best (the
\* earliest iteration of strictly minimal loss), whatever later optimizer
\* steps did to the vector.
C1_ReturnsBestIterate ==
    (pc = "free" /\ n_iter >= 1 /\ IsFinite(min_loss))
        => dense_flow = <<x_at_best>>

\* C2: when backward fails at an iteration k whose loss is not finite, the
\* call still returns, and what it returns is decoded from the best iterate
\* recorded at the iterations before k.
C2_GradientFailureReturnsPriorBest ==
    (pc = "free" /\ fail_it >= 0 /\ ~IsFinite(fail_loss))
        => dense_flow = <<x_at_prior_best>>

\* C3: after the activation step of every call the Active Patch Set is the
\* strictly increasing list of exactly the patches whose center is inside the
\* crop and, when thresholding is on, whose cropped event count is strictly
\* greater than event_thres; it is a function of this call's events only.
C3_ActivePatchSet ==
    pc \in {"x0", "setup"} =>
        /\ \A j \in 1 .. Len(estimate_indices) - 1 :
               estimate_indices[j] < estimate_indices[j + 1]
        /\ \A i \in PatchIds :
               i \in Active <=>
                   /\ crop.xmin <= patches(i).x /\ patches(i).x <= crop.xmax
                   /\ crop.ymin <= patches(i).y /\ patches(i).y <= crop.ymax
                   /\ (do_event_thresholding => events[i] >= event_thres + 1)

C3_Witness ==
    /\ pc = "x0"
    /\ iter_cnt = 1
    /\ do_event_thresholding
    /\ crop.xmin = 0
    /\ events[0] = event_thres - 1
    /\ events[1] = event_thres
    /\ events[2] = event_thres + 1
    /\ events[3] = event_thres - 1
    /\ estimate_indices = <<2>>

\* C4 as written: every field the three decode paths return is 0 at every
\* patch outside the Active Patch Set.
C4_EveryDecodedFieldZeroOffActive ==
    (called \in DecodePaths /\ result.err = NoError) => ZeroOffActive(result.field)

\* C4 amended: the fields of _get_patch_translation and _get_patch_poisson,
\* the flow of _get_patch_flow for the velocity and angle models, and for the
\* poisson model the scattered intensity orig_patch_p, are 0 at every patch
\* outside the Active Patch Set (the poisson flow, a Sobel gradient of that
\* intensity, is not).
C4_ScatteredFieldsZeroOffActive ==
    /\ (called \in {"_get_patch_translation", "_get_patch_poisson"}
            /\ result.err = NoError) => ZeroOffActive(result.field)
    /\ (called = "_get_patch_flow" /\ ~is_poisson_model /\ result.err = NoError)
            => ZeroOffActive(result.field)
    /\ (called = "_get_patch_flow" /\ is_poisson_model
            /\ result.err # "AssertionError")
            => ZeroOffActive(ScatteredIntensity(parameters, n_parameter_dim,
                                                estimate_indices))

C4_Witness ==
    /\ called = "_get_patch_flow"
    /\ ~is_poisson_model
    /\ is_angle_model
    /\ result.err = NoError
    /\ estimate_indices = <<1, 2>>
    /\ \E i \in Active : result.field[2][i + 1] # 0

\* C5: for the plain velocity model the flow decoded from a flat vector of
\* per-patch blocks in active-patch order holds, at grid index
\* estimate_indices[j], the pair (flat[j*dim], flat[j*dim+1]) (0-based), and an
\* interpolation that keeps patch centers returns the same pair at the center
\* pixel of that patch.
C5_VelocityRoundTrip ==
    LET dim == n_parameter_dim
        Pair(j, f, at) ==
            /\ f[1][at] = parameters[(j - 1) * dim + 1]
            /\ f[2][at] = parameters[(j - 1) * dim + 2]
        Center(i) == patches(i).x * dense_size[2] + patches(i).y + 1
    IN (~is_poisson_model /\ ~is_angle_model /\ dim \in {2, 4}) =>
        /\ called = "_get_patch_flow" =>
             /\ result.err = NoError
             /\ \A j \in 1 .. Len(estimate_indices) :
                    Pair(j, result.field, estimate_indices[j] + 1)
        /\ called = "_extrapolate_dense_flow_from_estimates" =>
             /\ result.err = NoError
             /\ \A j \in 1 .. Len(estimate_indices) :
                    Pair(j, result.field, Center(estimate_indices[j]))

C5_Witness ==
    /\ called = "_extrapolate_dense_flow_from_estimates"
    /\ ~is_poisson_model /\ ~is_angle_model
    /\ n_parameter_dim = 4
    /\ estimate_indices = <<0, 3>>
    /\ parameters = ParamVector(8, 1, 0)
    /\ result.err = NoError

\* the rows of the section 4.2 table that apply to a flag configuration
TableDims(poisson, angle, warp) ==
    (IF poisson /\ ~warp THEN {1} ELSE {})
    \cup (IF ~poisson /\ ~angle /\ ~warp THEN {2} ELSE {})
    \cup (IF poisson /\ warp THEN {3} ELSE {})
    \cup (IF ~poisson /\ angle /\ warp THEN {3} ELSE {})
    \cup (IF ~poisson /\ ~angle /\ warp THEN {4} ELSE {})

\* C6 as written: a decode path invoked with an n_parameter_dim that is not
\* the table's block size for the active flags fails its assertion.
C6_MismatchFailsAssertion ==
    (called \in DecodePaths
        /\ n_parameter_dim \notin TableDims(is_poisson_model, is_angle_model, optimize_warp))
        => result.err = "AssertionError"

\* C6 amended: each decode path fails its assertion exactly when
\* n_parameter_dim is outside that path's own asserted set, which does not
\* depend on optimize_warp: flow {1,3} for poisson or angle and {2,4} for
\* velocity; translation {3} for poisson or angle and {4} for velocity;
\* intensity {1,3} and the poisson model.  The table's block size of every
\* table configuration passes the flow path's assertion.
C6_AssertedSets ==
    LET P == is_poisson_model
        A == is_angle_model
        d == n_parameter_dim
        Fails == result.err = "AssertionError"
    IN /\ called = "_get_patch_flow" =>
            /\ Fails <=> ~(IF P \/ A THEN d \in {1, 3} ELSE d \in {2, 4})
            /\ d \in TableDims(P, A, optimize_warp) => ~Fails
       /\ called = "_get_patch_translation" =>
            (Fails <=> ~(IF P \/ A THEN d = 3 ELSE d = 4))
       /\ called = "_get_patch_poisson" =>
            (Fails <=> ~(P /\ d \in {1, 3}))

C6_Witness ==
    /\ called = "_get_patch_flow"
    /\ ~is_poisson_model /\ is_angle_model /\ optimize_warp
    /\ n_parameter_dim = 2
    /\ result.err = "AssertionError"

\* C7: no exception leaves estimate() other than a failed contract assertion.
C7_NoExceptionLeavesEstimate ==
    exc \in {"none", "AssertionError"}

\* C8: whenever no call is running, the histogram and weights caches are
\* released.
C8_CachesReleasedBetweenCalls ==
    pc \in {"idle", "raised"} =>
        (cache_histogram = "unset" /\ cache_weights = "unset")

\* the dense field obtained by interpolating the single-channel patch
\* intensity and differentiating the dense intensity
InterpolateThenSobel ==
    poisson_to_flow(
        Interpolate(<<ScatterAdd(Zeros(1)[1], estimate_indices,
                                 ReshapedParams(parameters, n_parameter_dim)[1])>>),
        dense_size[1], dense_size[2])

C10_Counts ==
    /\ pc \in LoopPcs =>
          /\ it < n_iter
          /\ fail_it = -1
          /\ n_sched_steps = it
          /\ n_opt_steps = IF pc = "sched" THEN it + 1 ELSE it
          /\ ENABLED Next
    /\ pc \in {"post", "free"} =>
          /\ n_opt_steps = (IF fail_it >= 0 THEN fail_it ELSE n_iter)
          /\ n_sched_steps = (IF fail_it >= 0 THEN fail_it ELSE n_iter)
          /\ fail_it < n_iter

C10_Order ==
    /\ pc = "setup" => pc' \in {"loss", "post"}
    /\ pc = "loss" => pc' = "best" /\ it' = it
    /\ pc = "best" => pc' = "backward" /\ it' = it
    /\ pc = "backward" => pc' \in {"step", "post"} /\ it' = it
    /\ pc = "step" => pc' = "sched" /\ it' = it
    /\ pc = "sched" => \/ pc' = "loss" /\ it' = it + 1
                       \/ pc' = "post"
    /\ pc = "post" => pc' = "free"
    /\ n_opt_steps' # n_opt_steps => pc = "step" \/ pc' \in {"idle", "select"}
    /\ n_sched_steps' # n_sched_steps => pc = "sched" \/ pc' \in {"idle", "select"}

C10_LoopStateMachine == [](C10_Counts) /\ [][C10_Order]_vars

C10_Witness ==
    /\ pc = "post"
    /\ n_iter = 2
    /\ fail_it = 1
    /\ n_opt_steps = 1
    /\ n_sched_steps = 1
====
